---- MODULE Spec2Model ----
(***************************************************************************)
(* Model of jmdaemon/message_channel.py: MessageChannelCollection (the     *)
(* router over several message channels) and the protocol dispatcher of    *)
(* MessageChannel.                                                         *)
(*                                                                         *)
(* A channel is identified by its hostid.  A dict keyed by nick is a       *)
(* function over Nicks whose absent keys map to NoChan.  Text is a         *)
(* sequence of atoms: the command prefix, the space, and words (strings    *)
(* holding neither), so that split and join are computed, not assumed.     *)
(***************************************************************************)
EXTENDS Integers, Sequences, FiniteSets, TLC

VARIABLES
    mc_status,                \* self.mc_status: channel -> 0 | 1 | 2
    active_channels,          \* self.active_channels: nick -> channel (NoChan: no key)
    nicks_seen,               \* self.nicks_seen: channel -> set of nicks
    welcomed,                 \* self.welcomed
    on_welcome,               \* whether a business on_welcome callback is registered
    on_welcome_announce_id,   \* the grace-timer handle: NoTimer, or the state of the call
    mc_lock,                  \* self.mc_lock: "free", or "held" by a welcome trigger
    welcome_calls,            \* number of invocations of the business on_welcome
    pending_verify,           \* signature-verification requests in flight
    give_up,                  \* self.give_up
    task,                     \* the broadcast or shutdown coroutine suspended in a send
    last                      \* the last operation and what it did (observation only)

vars == <<mc_status, active_channels, nicks_seen, welcomed, on_welcome,
          on_welcome_announce_id, mc_lock, welcome_calls, pending_verify,
          give_up, task, last>>

routeVars == <<active_channels, nicks_seen>>
welcomeVars == <<welcomed, on_welcome, on_welcome_announce_id, mc_lock, welcome_calls>>
taskVars == <<give_up, task>>

---------------------------------------------------------------------------
(* Configuration and bounds *)

\* the channel list handed to the constructor, in list order
mchannels == <<"A", "B", "C">>
Channels == {mchannels[i] : i \in 1..Len(mchannels)}
\* counterparty nicks the environment may name
Nicks == {"bob", "eve"}
NoChan == "none"
NoTimer == "None"

\* at most this many signature verifications are in flight at once
MaxPending == 1
\* the counter of on_welcome invocations stops counting here
MaxCalls == 3

hostid(mc) == mc

\* business callbacks handed to register_channel_callbacks /
\* register_orderbookwatch_callbacks / register_taker_callbacks
on_disconnect == TRUE
on_nick_leave == TRUE
on_order_seen == TRUE
on_order_cancel == TRUE
on_fidelity_bond_seen == TRUE
on_error == TRUE
on_pubkey == TRUE
on_ioauth == TRUE
on_sig == TRUE

---------------------------------------------------------------------------
(* Pure helpers of MessageChannelCollection *)

available_channels(st) == SelectSeq(mchannels, LAMBDA x : st[x] = 1)

unavailable_channels(st) == SelectSeq(mchannels, LAMBDA x : st[x] # 1)

Range(s) == {s[i] : i \in 1..Len(s)}

\* faulty variant: the loop keeps going after a hit, so the last hit wins
RECURSIVE last_seen(_, _, _)
last_seen(cp, chans, ns) ==
    IF chans = <<>> THEN NoChan
    ELSE IF cp \in ns[chans[Len(chans)]] THEN chans[Len(chans)]
    ELSE last_seen(cp, SubSeq(chans, 1, Len(chans) - 1), ns)

\* "for mc in chans: if cp in nicks_seen[mc]: ...; break/return": the first hit
RECURSIVE first_seen(_, _, _)
first_seen(cp, chans, ns) ==
    IF chans = <<>> THEN NoChan
    ELSE IF cp \in ns[Head(chans)] THEN Head(chans)
    ELSE first_seen(cp, Tail(chans), ns)

\* faulty variant: the entries still pinned to mc are not removed
flush_one_keep(mc, st, r) ==
    LET ns1  == [r.ns EXCEPT ![mc] = {}]
        avail == available_channels(st)
    IN [ac |-> [p \in Nicks |->
                  IF r.ac[p] = mc /\ first_seen(p, avail, ns1) # NoChan
                  THEN first_seen(p, avail, ns1)
                  ELSE r.ac[p]],
        ns |-> ns1]

\* the body of flush_nicks for one unavailable channel mc
flush_one(mc, st, r) ==
    LET ns1  == [r.ns EXCEPT ![mc] = {}]
        avail == available_channels(st)
        \* peers pinned to mc move to the first available channel that saw them
        ac1  == [p \in Nicks |->
                   IF r.ac[p] = mc /\ first_seen(p, avail, ns1) # NoChan
                   THEN first_seen(p, avail, ns1)
                   ELSE r.ac[p]]
        \* "Remove all entries for the newly unavailable channel"
        ac2  == [p \in Nicks |-> IF ac1[p] = mc THEN NoChan ELSE ac1[p]]
    IN [ac |-> ac2, ns |-> ns1]

RECURSIVE flush_loop(_, _, _)
flush_loop(chans, st, r) ==
    IF chans = <<>> THEN r
    ELSE flush_loop(Tail(chans), st, flush_one(Head(chans), st, r))

flush_nicks(st, ac, ns) ==
    flush_loop(unavailable_channels(st), st, [ac |-> ac, ns |-> ns])

---------------------------------------------------------------------------
(* Observation record *)

NoPre == [ac |-> [n \in Nicks |-> NoChan], ns |-> [c \in Channels |-> {}],
          st |-> [c \in Channels |-> 0]]

Obs(op, mc, nick, branch, sent, signed, cbs, pre) ==
    [op |-> op, mc |-> mc, nick |-> nick, branch |-> branch,
     sent |-> sent, signed |-> signed, cbs |-> cbs, raised |-> FALSE, pre |-> pre]

Quiet(op, mc, nick, branch) == Obs(op, mc, nick, branch, <<>>, <<>>, <<>>, NoPre)

\* no broadcast or shutdown is in progress
Idle == [op |-> "idle", shutdown_unavailable |-> FALSE, phase |-> "", todo |-> <<>>,
         sent |-> <<>>, st |-> [c \in Channels |-> 0]]

---------------------------------------------------------------------------
\* the collection after __init__ and the registration of the callbacks; ow:
\* whether a business on_welcome was registered
Construct(ow) ==
    /\ mc_status = [c \in Channels |-> 0]
    /\ active_channels = [n \in Nicks |-> NoChan]
    /\ nicks_seen = [c \in Channels |-> {}]
    /\ welcomed = FALSE
    /\ on_welcome = ow
    /\ on_welcome_announce_id = NoTimer
    /\ mc_lock = "free"
    /\ welcome_calls = 0
    /\ pending_verify = {}
    /\ give_up = FALSE
    /\ task = Idle
    /\ last = Quiet("init", NoChan, NoChan, "")

Init == Construct(FALSE)

InitWelcome == \E ow \in BOOLEAN : Construct(ow)

---------------------------------------------------------------------------
(* Connectivity triggers *)

on_connect_trigger(mc) ==
    /\ mc_status' = [mc_status EXCEPT ![mc] = 1]
    /\ last' = Quiet("on_connect_trigger", mc, NoChan, "")
    /\ UNCHANGED <<routeVars, welcomeVars, pending_verify, taskVars>>

\* faulty variant: every channel must have failed
all_unavailable(st) == \A x \in Channels : st[x] = 2

\* "not any([x == 1 for x in self.mc_status.values()])"
none_connected(st) == \A x \in Channels : st[x] # 1

on_disconnect_trigger(mc) ==
    LET st == [mc_status EXCEPT ![mc] = 2]
        r  == flush_nicks(st, active_channels, nicks_seen)
        fire == none_connected(st) /\ on_disconnect
    IN /\ mc_status' = st
       /\ active_channels' = r.ac
       /\ nicks_seen' = r.ns
       /\ last' = Obs("on_disconnect_trigger", mc, NoChan, "", <<>>, <<>>,
                      IF fire THEN <<"on_disconnect">> ELSE <<>>,
                      [ac |-> active_channels, ns |-> nicks_seen, st |-> mc_status])
       /\ UNCHANGED <<welcomeVars, pending_verify, taskVars>>

\* timer.cancel(): a pending call never runs; what cancelling a call that is
\* already running does is the scheduler's choice
cancelled(t) ==
    CASE t = "pending" -> {"cancelled"}
      [] t = "running" -> {"running", "cancelled"}
      [] OTHER -> {t}

\* faulty variant: a channel that is not available counts as not ready
any_unavailable(st) == \E x \in Channels : st[x] # 1

\* "any([x == 0 for x in self.mc_status.values()])"
any_not_started(st) == \E x \in Channels : st[x] = 0

\* faulty variant: the grace timer is never scheduled
callLater_never(t, ow) == t

\* the timer handle after "if (not self.on_welcome_announce_id) and
\* self.on_welcome: self.on_welcome_announce_id = commands.callLater(...)"
callLater(t, ow) == IF t = NoTimer /\ ow THEN "pending" ELSE t

\* on_welcome_trigger up to its first suspension (inside the business callback)
on_welcome_trigger(mc) ==
    LET st == [mc_status EXCEPT ![mc] = 1] IN
    /\ mc_lock = "free"
    /\ mc_status' = st
    /\ IF welcomed
       THEN /\ last' = Quiet("on_welcome_trigger", mc, NoChan, "welcomed")
            /\ UNCHANGED welcomeVars
       ELSE IF any_not_started(st)
       THEN /\ on_welcome_announce_id' = callLater(on_welcome_announce_id, on_welcome)
            /\ last' = Quiet("on_welcome_trigger", mc, NoChan, "wait")
            /\ UNCHANGED <<welcomed, on_welcome, mc_lock, welcome_calls>>
       ELSE /\ on_welcome_announce_id' \in cancelled(on_welcome_announce_id)
            /\ IF on_welcome
               THEN /\ welcome_calls < MaxCalls
                    /\ welcome_calls' = welcome_calls + 1
                    /\ mc_lock' = "held"
                    /\ UNCHANGED welcomed
                    /\ last' = Obs("on_welcome_trigger", mc, NoChan, "fire",
                                   <<>>, <<>>, <<"on_welcome">>, NoPre)
               ELSE /\ welcomed' = TRUE
                    /\ UNCHANGED <<mc_lock, welcome_calls>>
                    /\ last' = Quiet("on_welcome_trigger", mc, NoChan, "fire")
            /\ UNCHANGED on_welcome
    /\ UNCHANGED <<routeVars, pending_verify, taskVars>>

\* the business on_welcome returns into on_welcome_setup_finished, called by
\* the trigger: welcomed is set and the lock is released
on_welcome_trigger_resume ==
    /\ mc_lock = "held"
    /\ welcomed' = TRUE
    /\ mc_lock' = "free"
    /\ last' = Quiet("on_welcome_trigger_resume", NoChan, NoChan, "")
    /\ UNCHANGED <<mc_status, routeVars, on_welcome, on_welcome_announce_id,
                   welcome_calls, pending_verify, taskVars>>

\* the grace timer runs on_welcome_setup_finished up to its suspension
on_welcome_setup_finished ==
    /\ on_welcome_announce_id = "pending"
    /\ IF on_welcome
       THEN /\ welcome_calls < MaxCalls
            /\ welcome_calls' = welcome_calls + 1
            /\ on_welcome_announce_id' = "running"
            /\ UNCHANGED welcomed
            /\ last' = Obs("on_welcome_setup_finished", NoChan, NoChan, "",
                           <<>>, <<>>, <<"on_welcome">>, NoPre)
       ELSE /\ welcomed' = TRUE
            /\ on_welcome_announce_id' = "done"
            /\ UNCHANGED welcome_calls
            /\ last' = Quiet("on_welcome_setup_finished", NoChan, NoChan, "")
    /\ UNCHANGED <<mc_status, routeVars, on_welcome, mc_lock, pending_verify, taskVars>>

\* the business on_welcome returns into the timer's on_welcome_setup_finished
on_welcome_setup_finished_resume ==
    /\ on_welcome_announce_id = "running"
    /\ welcomed' = TRUE
    /\ on_welcome_announce_id' = "done"
    /\ last' = Quiet("on_welcome_setup_finished_resume", NoChan, NoChan, "")
    /\ UNCHANGED <<mc_status, routeVars, on_welcome, mc_lock, welcome_calls,
                   pending_verify, taskVars>>

---------------------------------------------------------------------------
(* Text: python's str operations on atom sequences *)

COMMAND_PREFIX == "!"
SP == " "

\* str.split(sep) for a one-character separator
RECURSIVE split(_, _)
split(s, sep) ==
    IF s = <<>> THEN << <<>> >>
    ELSE LET rest == split(Tail(s), sep) IN
         IF Head(s) = sep THEN << <<>> >> \o rest
         ELSE << <<Head(s)>> \o Head(rest) >> \o Tail(rest)

\* sep.join(parts)
RECURSIVE join(_, _)
join(parts, sep) ==
    IF parts = <<>> THEN <<>>
    ELSE IF Len(parts) = 1 THEN parts[1]
    ELSE parts[1] \o <<sep>> \o join(Tail(parts), sep)

\* ''.join(parts)
RECURSIVE concat(_)
concat(parts) == IF parts = <<>> THEN <<>> ELSE Head(parts) \o concat(Tail(parts))

\* len(text), in characters
RECURSIVE char_len(_)
char_len(s) == IF s = <<>> THEN 0 ELSE Len(Head(s)) + char_len(Tail(s))

\* python slices: s[1:], s[:-2], s[1:-2], s[-2:]
drop_first(s) == IF s = <<>> THEN <<>> ELSE Tail(s)
drop_last2(s) == SubSeq(s, 1, Len(s) - 2)
last2(s) == IF Len(s) <= 2 THEN s ELSE SubSeq(s, Len(s) - 1, Len(s))

word(w) == <<w>>

---------------------------------------------------------------------------
(* Protocol tables imported by message_channel.py *)

offername_list == {word("reloffer"), word("absoffer"), word("swreloffer"),
                   word("swabsoffer"), word("sw0reloffer"), word("sw0absoffer")}
fidelity_bond_cmd_list == {word("tbond")}
encrypted_commands == {word("auth"), word("ioauth"), word("tx"), word("sig")}
plaintext_commands == {word("fill"), word("error"), word("pubkey"),
                       word("orderbook"), word("push"), word("hp2")}
                      \cup offername_list \cup fidelity_bond_cmd_list

\* int(text) succeeds
is_int(chunk) == chunk \in {word("0"), word("1"), word("7")}
\* hextobin(text) succeeds
is_hex(chunk) == chunk \in {word("02ab")}
\* base64.b64decode(text) succeeds
is_base64(chunk) == chunk \in {word("c2ln"), word("02ab"), word("reloffer")}

\* decode_decrypt(text, box): the plaintext of the ciphertexts that decrypt
decrypts(ct) == ct \in {word("Csig"), word("Cioauth"), word("Cshort")}
decode_decrypt(ct) ==
    IF ct = word("Csig") THEN <<"s1">>
    ELSE IF ct = word("Cshort") THEN <<"u1", SP, "ap">>
    ELSE <<"u1", SP, "ap", SP, "cj", SP, "ch", SP, "bs">>

---------------------------------------------------------------------------
(* MessageChannel: the protocol dispatcher.  A handler's result is the     *)
(* sequence of callbacks it invokes, in order.                             *)

call(registered, name) == IF registered THEN <<name>> ELSE <<>>

\* check_for_orders: [hit: its return value, ev: the callbacks invoked]
check_for_orders(_chunks) ==
    IF _chunks[1] \in offername_list
    THEN [hit |-> TRUE,
          ev |-> IF Len(_chunks) >= 6 THEN call(on_order_seen, "on_order_seen")
                 ELSE <<>>]
    ELSE [hit |-> FALSE, ev |-> <<>>]

\* faulty variant: the callback is invoked whether or not the proof is there
check_for_fidelity_bond_unchecked(_chunks) ==
    IF _chunks[1] \in fidelity_bond_cmd_list
    THEN [hit |-> TRUE, ev |-> call(on_fidelity_bond_seen, "on_fidelity_bond_seen")]
    ELSE [hit |-> FALSE, ev |-> <<>>]

check_for_fidelity_bond(_chunks) ==
    IF _chunks[1] \in fidelity_bond_cmd_list
    THEN [hit |-> TRUE,
          ev |-> IF Len(_chunks) >= 2
                 THEN call(on_fidelity_bond_seen, "on_fidelity_bond_seen")
                 ELSE <<>>]
    ELSE [hit |-> FALSE, ev |-> <<>>]

\* faulty variant: the public loop also looks for fidelity bonds
RECURSIVE pubmsg_loop_bonds(_)
pubmsg_loop_bonds(cmds) ==
    IF cmds = <<>> THEN <<>>
    ELSE LET _chunks == split(Head(cmds), SP) IN
         IF check_for_orders(_chunks).hit
         THEN check_for_orders(_chunks).ev \o pubmsg_loop_bonds(Tail(cmds))
         ELSE IF check_for_fidelity_bond(_chunks).hit
         THEN check_for_fidelity_bond(_chunks).ev \o pubmsg_loop_bonds(Tail(cmds))
         ELSE IF _chunks[1] = word("cancel")
         THEN IF Len(_chunks) >= 2 /\ is_int(_chunks[2])
              THEN call(on_order_cancel, "on_order_cancel") \o pubmsg_loop_bonds(Tail(cmds))
              ELSE <<>>
         ELSE pubmsg_loop_bonds(Tail(cmds))

\* the loop of on_pubmsg over the sub-commands
RECURSIVE pubmsg_loop(_)
pubmsg_loop(cmds) ==
    IF cmds = <<>> THEN <<>>
    ELSE LET _chunks == split(Head(cmds), SP) IN
         IF check_for_orders(_chunks).hit
         THEN check_for_orders(_chunks).ev \o pubmsg_loop(Tail(cmds))
         ELSE IF _chunks[1] = word("cancel")
         THEN IF Len(_chunks) >= 2 /\ is_int(_chunks[2])
              THEN call(on_order_cancel, "on_order_cancel") \o pubmsg_loop(Tail(cmds))
              ELSE <<>>
         ELSE pubmsg_loop(Tail(cmds))

\* faulty variant: repeated orderbook sub-commands are not looked for
on_pubmsg_branch_unguarded(message) ==
    IF message[1] # COMMAND_PREFIX THEN "not_cmd" ELSE "loop"

\* on_pubmsg after its on_pubmsg_trigger: which early return is taken, or "loop"
on_pubmsg_branch(message) ==
    IF message[1] # COMMAND_PREFIX THEN "not_cmd"
    ELSE LET commands == split(drop_first(message), COMMAND_PREFIX) IN
         IF Cardinality({i \in 1..Len(commands) : commands[i] = word("orderbook")}) > 1
         THEN "flood"
         ELSE "loop"

\* on_pubmsg after its on_pubmsg_trigger: the callbacks invoked
on_pubmsg_events(message) ==
    IF on_pubmsg_branch(message) = "loop"
    THEN pubmsg_loop(split(drop_first(message), COMMAND_PREFIX))
    ELSE <<>>

\* on_privmsg, phase 1: the reason for dropping the message, or "verify"
on_privmsg_check(message) ==
    IF char_len(message) < 2 THEN "short"
    ELSE IF message[1] # COMMAND_PREFIX THEN "not_cmd"
    ELSE LET toks == split(drop_first(message), SP)
             rawmessage == join(drop_last2(drop_first(toks)), SP)
         IN IF toks[1] \notin plaintext_commands \cup encrypted_commands
            THEN "unknown_cmd"
            ELSE IF Len(last2(toks)) # 2 THEN "badsig"
            ELSE IF Len(rawmessage) = 0 THEN "badsig"
            ELSE IF ~ (is_hex(last2(toks)[1]) /\ is_base64(last2(toks)[2]))
            THEN "badsig"
            ELSE "verify"

\* the payload prepare_privmsg hands to request_signed_message
msg_to_be_signed(message, h) == message \o <<h>>

\* faulty variant: the hostid of the first channel, not of the receiving one
verify_payload_first(message, mc) ==
    join(drop_last2(drop_first(split(drop_first(message), SP))), SP)
        \o <<hostid(mchannels[1])>>

\* the signing payload handed to request_signature_verify
verify_payload(message, mc) ==
    join(drop_last2(drop_first(split(drop_first(message), SP))), SP) \o <<hostid(mc)>>

\* the try block of on_verified_privmsg for one sub-command
dispatch(_chunks) ==
    IF check_for_orders(_chunks).hit THEN check_for_orders(_chunks).ev
    ELSE IF check_for_fidelity_bond(_chunks).hit THEN check_for_fidelity_bond(_chunks).ev
    ELSE IF _chunks[1] = word("error") THEN call(on_error, "on_error")
    ELSE IF _chunks[1] = word("pubkey")
    THEN IF Len(_chunks) >= 2 THEN call(on_pubkey, "on_pubkey") ELSE <<>>
    ELSE IF _chunks[1] = word("ioauth")
    THEN IF Len(_chunks) >= 6 THEN call(on_ioauth, "on_ioauth") ELSE <<>>
    ELSE IF _chunks[1] = word("sig")
    THEN IF Len(_chunks) >= 2 THEN call(on_sig, "on_sig") ELSE <<>>
    ELSE <<>>

\* get_encryption_box: whether cmd is to be encrypted
encrypt(cmd) == cmd \notin plaintext_commands

\* the loop of on_verified_privmsg over the sub-commands; box: whether the
\* session-key subsystem has a key for the nick
RECURSIVE verified_loop(_, _)
verified_loop(cmds, box) ==
    IF cmds = <<>> THEN <<>>
    ELSE LET c0 == split(Head(cmds), SP)
             enc == c0[1] \in encrypted_commands /\ encrypt(c0[1])
             to_decrypt == concat(Tail(c0))
         IN IF enc /\ ~box THEN <<>>
            ELSE IF enc /\ ~decrypts(to_decrypt) THEN <<>>
            ELSE LET _chunks == IF enc
                                THEN <<c0[1]>> \o split(decode_decrypt(to_decrypt), SP)
                                ELSE c0
                 IN dispatch(_chunks) \o verified_loop(Tail(cmds), box)

\* MessageChannel.on_verified_privmsg after its on_privmsg_trigger
on_verified_privmsg_events(message, box) ==
    LET stripped == join(drop_last2(split(drop_first(message), SP)), SP)
    IN verified_loop(split(stripped, COMMAND_PREFIX), box)

---------------------------------------------------------------------------
(* Messages the transports deliver *)

Text(ws) == [i \in 1..(2 * Len(ws) - 1) |-> IF i % 2 = 1 THEN ws[(i + 1) \div 2] ELSE SP]
Cmd(ws) == <<COMMAND_PREFIX>> \o Text(ws)

GoodOffer == <<"reloffer", "0", "1", "2", "3", "4">>
PubOffer == Cmd(<<"reloffer", "0", "1", "2", "3", "4">>)
PubChat == Text(<<"hello">>)
PubMessages == {PubOffer, PubChat}

PrivOffer == Cmd(<<"reloffer", "0", "1", "2", "3", "4", "02ab", "c2ln">>)
PrivPubkey == Cmd(<<"pubkey", "k1", "02ab", "c2ln">>)
PrivShort == <<COMMAND_PREFIX>>
PrivNotCmd == Text(<<"reloffer", "0", "1", "2", "3", "4", "02ab", "c2ln">>)
PrivUnknown == Cmd(<<"bogus", "0", "02ab", "c2ln">>)
PrivNoTrailer == Cmd(<<"pubkey">>)
PrivNoBody == Cmd(<<"pubkey", "02ab", "c2ln">>)
PrivBadHex == Cmd(<<"reloffer", "0", "1", "2", "3", "4", "zz", "c2ln">>)
PrivBadB64 == Cmd(<<"reloffer", "0", "1", "2", "3", "4", "02ab", "z">>)
PrivMessages == {PrivOffer, PrivPubkey, PrivShort, PrivNotCmd, PrivUnknown,
                 PrivNoTrailer, PrivNoBody, PrivBadHex, PrivBadB64}
\* the same offer carrying another signature
PrivOfferForB == Cmd(GoodOffer \o <<"02ab", "02ab">>)
SignedMessages == {PrivOffer, PrivOfferForB}

\* public messages of several sub-commands: each sub-command starts with the
\* command prefix, with nothing between one sub-command and the next
RECURSIVE Cmds(_)
Cmds(cs) == IF cs = <<>> THEN <<>> ELSE Cmd(Head(cs)) \o Cmds(Tail(cs))

PubTwoOffers == Cmds(<<GoodOffer, <<"absoffer", "1", "1", "2", "3", "4">> >>)
PubCancel == Cmd(<<"cancel", "1">>)
PubOneOrderbook == Cmds(<< <<"orderbook">>, GoodOffer >>)
PubFlood == Cmds(<< <<"orderbook">>, <<"orderbook">>, GoodOffer >>)
PubFloodCancel == Cmds(<< <<"orderbook">>, <<"cancel", "1">>, <<"orderbook">> >>)
\* "!orderbook !orderbook!reloffer ...": the first sub-command ends with a space
PubSpacedOrderbook == Cmd(<<"orderbook">>) \o <<SP>> \o Cmds(<< <<"orderbook">>, GoodOffer >>)
PubShortOffer == Cmds(<< <<"reloffer", "0", "1">>, GoodOffer >>)
PubBadCancel == Cmds(<< <<"cancel", "x">>, GoodOffer >>)
PubNoOidCancel == Cmds(<< <<"cancel">>, <<"cancel", "7">> >>)
PubDispatch == {PubOffer, PubChat, PubTwoOffers, PubCancel, PubOneOrderbook,
                PubFlood, PubFloodCancel, PubSpacedOrderbook, PubShortOffer,
                PubBadCancel, PubNoOidCancel}

\* a fidelity bond announced in public, alone and before an offer
PubBond == Cmd(<<"tbond", "p1">>)
PubBondOffer == Cmds(<< <<"tbond", "p1">>, GoodOffer >>)
PubBondMessages == {PubBond, PubBondOffer}

\* private messages of several sub-commands; the public key and the signature
\* of the sender end the message
Trailer == <<"02ab", "c2ln">>
PrivSigPubkey == Cmds(<< <<"sig", "Csig">>, <<"pubkey", "k1">> \o Trailer >>)
PrivBadSigPubkey == Cmds(<< <<"sig", "Cbad">>, <<"pubkey", "k1">> \o Trailer >>)
PrivIoauthSig == Cmds(<< <<"ioauth", "Cioauth">>, <<"sig", "Csig">> \o Trailer >>)
PrivShortIoauth == Cmds(<< <<"ioauth", "Cshort">>, <<"error", "e1">> \o Trailer >>)
PrivShortOfferPubkey == Cmds(<< <<"reloffer", "0", "1">>, <<"pubkey", "k1">> \o Trailer >>)
PrivNoArgs == Cmds(<< <<"error", "e1">>, <<"pubkey">>, <<"tbond">>,
                      <<"tbond", "p1">> \o Trailer >>)
\* an offer whose fields are all present and none a number
PrivOddOffer == Cmd(<<"reloffer", "a", "b", "c", "d", "e">> \o Trailer)
PrivBond == Cmd(<<"tbond", "p1">> \o Trailer)
VerifiedDispatch == {PrivOffer, PrivSigPubkey, PrivBadSigPubkey, PrivIoauthSig,
                     PrivShortIoauth, PrivShortOfferPubkey, PrivNoArgs,
                     PrivOddOffer, PrivBond}

\* the dispatcher's results for the messages above, computed once
AllPub == PubMessages \cup PubDispatch \cup PubBondMessages
AllPriv == PrivMessages \cup SignedMessages \cup VerifiedDispatch
pub_table == [m \in AllPub |-> on_pubmsg_events(m)]
pub_branch_table == [m \in AllPub |-> on_pubmsg_branch(m)]
priv_table == [m \in AllPriv |-> on_privmsg_check(m)]
verified_table == [m \in AllPriv, b \in BOOLEAN |-> on_verified_privmsg_events(m, b)]

---------------------------------------------------------------------------
(* MessageChannelCollection: sightings and pinning *)

see_nick(ns, nick, mc) == [ns EXCEPT ![mc] = ns[mc] \cup {nick}]

\* faulty variant: the nick is unmarked on every channel
unsee_nick_all(ns, nick, mc) == [c \in Channels |-> ns[c] \ {nick}]

unsee_nick(ns, nick, mc) == [ns EXCEPT ![mc] = ns[mc] \ {nick}]

\* faulty variant: an existing pin is kept, so the first offer wins
on_order_seen_trigger_first(r, mc, counterparty) ==
    [ac |-> IF r.ac[counterparty] = NoChan
            THEN [r.ac EXCEPT ![counterparty] = mc] ELSE r.ac,
     ns |-> see_nick(r.ns, counterparty, mc)]

\* faulty variant: the offer pins the counterparty and records no sighting
on_order_seen_trigger_unseen(r, mc, counterparty) ==
    [ac |-> [r.ac EXCEPT ![counterparty] = mc], ns |-> r.ns]

\* on_order_seen_trigger, once per on_order_seen the dispatcher invokes
on_order_seen_trigger(r, mc, counterparty) ==
    [ac |-> [r.ac EXCEPT ![counterparty] = mc],
     ns |-> see_nick(r.ns, counterparty, mc)]

RECURSIVE apply_events(_, _, _, _)
apply_events(ev, r, mc, nick) ==
    IF ev = <<>> THEN r
    ELSE apply_events(Tail(ev),
                      IF Head(ev) = "on_order_seen"
                      THEN on_order_seen_trigger(r, mc, nick) ELSE r,
                      mc, nick)

\* the transport of a channel delivers inbound events while it is connected
delivers(mc) == mc_status[mc] = 1

\* MessageChannel.on_pubmsg
on_pubmsg(mc, nick, message) ==
    LET ev == pub_table[message]
        r  == apply_events(ev, [ac |-> active_channels,
                                ns |-> see_nick(nicks_seen, nick, mc)], mc, nick)
    IN /\ delivers(mc)
       /\ mc_lock = "free"
       /\ active_channels' = r.ac
       /\ nicks_seen' = r.ns
       /\ last' = Obs("on_pubmsg", mc, nick, pub_branch_table[message], <<>>, <<>>, ev,
                      \* observation: the pins before the message
                      [NoPre EXCEPT !.ac = active_channels])
       /\ UNCHANGED <<mc_status, welcomeVars, pending_verify, taskVars>>

\* faulty variant: the sighting is recorded on receipt, before any verification
on_privmsg_eager(mc, nick, message) ==
    LET res == priv_table[message] IN
    /\ delivers(mc)
    /\ IF res = "verify"
       THEN /\ Cardinality(pending_verify) < MaxPending
            /\ pending_verify' = pending_verify \cup
                   {[nick |-> nick, hostid |-> hostid(mc), message |-> message]}
       ELSE UNCHANGED pending_verify
    /\ nicks_seen' = see_nick(nicks_seen, nick, mc)
    /\ last' = Quiet("on_privmsg", mc, nick, res)
    /\ UNCHANGED <<mc_status, active_channels, welcomeVars, taskVars>>

\* MessageChannel.on_privmsg
on_privmsg(mc, nick, message) ==
    LET res == priv_table[message] IN
    /\ delivers(mc)
    /\ IF res = "verify"
       THEN /\ Cardinality(pending_verify) < MaxPending
            /\ pending_verify' = pending_verify \cup
                   {[nick |-> nick, hostid |-> hostid(mc), message |-> message]}
       ELSE UNCHANGED pending_verify
    /\ last' = Quiet("on_privmsg", mc, nick, res)
    /\ UNCHANGED <<mc_status, routeVars, welcomeVars, taskVars>>

\* request_signature_verify answers that the signature is bad: nothing is called
verify_failed(req) ==
    /\ req \in pending_verify
    /\ pending_verify' = pending_verify \ {req}
    /\ last' = Quiet("verify_failed", req.hostid, req.nick, "")
    /\ UNCHANGED <<mc_status, routeVars, welcomeVars, taskVars>>

\* the payload each signature was made over by its sender's prepare_privmsg:
\* the message after the command word, for the channel A and for the channel B
signed_payload ==
    [sig \in {"c2ln", "02ab"} |->
       msg_to_be_signed(Text(Tail(GoodOffer)),
                        IF sig = "c2ln" THEN hostid("A") ELSE hostid("B"))]

\* the signature check of request_signature_verify: the signature appended to
\* the message is a signature over the payload submitted with it
ecdsa_verify(payload, message) ==
    LET sig == message[Len(message)]
    IN sig \in DOMAIN signed_payload /\ signed_payload[sig] = payload

\* MessageChannelCollection.on_verified_privmsg(nick, message, hostid), then
\* MessageChannel.on_verified_privmsg, whose on_privmsg_trigger is
\* MessageChannelCollection.on_privmsg.  With no channel of that hostid,
\* matched_channels[0] raises IndexError
verified_privmsg(nick, message, h, box) ==
    LET matched_channels == SelectSeq(mchannels, LAMBDA x : h = hostid(x))
        mc == matched_channels[1]
        ev == verified_table[message, box]
        seen == IF mc_status[mc] = 1 THEN see_nick(nicks_seen, nick, mc)
                ELSE nicks_seen
        r == apply_events(ev, [ac |-> active_channels, ns |-> seen], mc, nick)
    IN IF matched_channels = <<>>
       THEN /\ last' = [Quiet("on_verified_privmsg", NoChan, nick, "no_channel")
                          EXCEPT !.raised = TRUE]
            /\ UNCHANGED routeVars
       ELSE /\ mc_status[mc] = 1 => mc_lock = "free"
            /\ active_channels' = r.ac
            /\ nicks_seen' = r.ns
            /\ last' = Obs("on_verified_privmsg", mc, nick,
                           IF mc_status[mc] = 1 THEN "seen" ELSE "not_available",
                           <<>>, <<>>, ev, NoPre)

\* request_signature_verify succeeds for a request deferred by on_privmsg
on_verified_privmsg(req, box) ==
    /\ req \in pending_verify
    /\ pending_verify' = pending_verify \ {req}
    /\ verified_privmsg(req.nick, req.message, req.hostid, box)
    /\ UNCHANGED <<mc_status, welcomeVars, taskVars>>

\* the hostids the daemon may hand to on_verified_privmsg: those of the
\* configured channels, and one of no configured channel
Hostids == {hostid(c) : c \in Channels} \cup {"X"}

\* the daemon calls MessageChannelCollection.on_verified_privmsg
daemon_on_verified_privmsg(nick, message, h, box) ==
    /\ verified_privmsg(nick, message, h, box)
    /\ UNCHANGED <<mc_status, welcomeVars, pending_verify, taskVars>>

\* request_signature_verify, deferred by on_privmsg, with the payload on_privmsg
\* computed for the channel the message arrived on
request_signature_verify(req, box) ==
    LET mc == CHOOSE c \in Channels : hostid(c) = req.hostid IN
    IF ecdsa_verify(verify_payload(req.message, mc), req.message)
    THEN on_verified_privmsg(req, box)
    ELSE verify_failed(req)

\* faulty variant: a nick that leaves its pinned channel is given up at once,
\* the other channels are not searched
nick_leave_pin_no_scan(nick, mc, ac, ns, st) ==
    IF ac[nick] = NoChan THEN [ac |-> ac, branch |-> "not_pinned"]
    ELSE IF ac[nick] = mc
    THEN [ac |-> [ac EXCEPT ![nick] = NoChan], branch |-> "left"]
    ELSE [ac |-> ac, branch |-> "elsewhere"]

\* on_nick_leave_trigger after unsee_nick: the pin map then, and the branch
\* taken; ns is the seen-sets after unsee_nick
nick_leave_pin(nick, mc, ac, ns, st) ==
    LET other_channels == SelectSeq(available_channels(st), LAMBDA x : x # mc)
        oc == first_seen(nick, other_channels, ns)
    IN IF ac[nick] = NoChan THEN [ac |-> ac, branch |-> "not_pinned"]
       ELSE IF ac[nick] = mc
       THEN IF Len(other_channels) = 0
            THEN [ac |-> [ac EXCEPT ![nick] = NoChan], branch |-> "no_channels"]
            ELSE IF oc # NoChan
            THEN [ac |-> [ac EXCEPT ![nick] = oc], branch |-> "repinned"]
            ELSE [ac |-> [ac EXCEPT ![nick] = NoChan], branch |-> "left"]
       ELSE [ac |-> ac, branch |-> "elsewhere"]

\* faulty variant: on_nick_leave is also called when the pin moved
leave_callbacks_always(branch) ==
    IF branch # "elsewhere" THEN call(on_nick_leave, "on_nick_leave") ELSE <<>>

\* the branches of on_nick_leave_trigger that call self.on_nick_leave
leave_callbacks(branch) ==
    IF branch \in {"not_pinned", "no_channels", "left"}
    THEN call(on_nick_leave, "on_nick_leave") ELSE <<>>

on_nick_leave_trigger(nick, mc) ==
    LET ns == unsee_nick(nicks_seen, nick, mc)
        r  == nick_leave_pin(nick, mc, active_channels, ns, mc_status)
    IN /\ delivers(mc)
       /\ mc_lock = "free"
       /\ nicks_seen' = ns
       /\ active_channels' = r.ac
       /\ last' = Obs("on_nick_leave_trigger", mc, nick, r.branch,
                      <<>>, <<>>, leave_callbacks(r.branch), NoPre)
       /\ UNCHANGED <<mc_status, welcomeVars, pending_verify, taskVars>>

---------------------------------------------------------------------------
(* MessageChannelCollection: sends to one counterparty *)

\* faulty variant: the scan takes the first available channel, seen there or not
check_privmsg_any(cp, ac, ns, st) ==
    LET avail == available_channels(st) IN
    IF ac[cp] # NoChan
    THEN [ok |-> TRUE, ac |-> ac, branch |-> "pinned"]
    ELSE IF avail # <<>>
    THEN [ok |-> TRUE, ac |-> [ac EXCEPT ![cp] = avail[1]], branch |-> "switched"]
    ELSE [ok |-> FALSE, ac |-> ac, branch |-> "no_route"]

\* the decorator check_privmsg: whether func is called, and the pin map then
check_privmsg(cp, ac, ns, st) ==
    IF ac[cp] # NoChan
    THEN [ok |-> TRUE, ac |-> ac, branch |-> "pinned"]
    ELSE LET mc == first_seen(cp, available_channels(st), ns) IN
         IF mc # NoChan
         THEN [ok |-> TRUE, ac |-> [ac EXCEPT ![cp] = mc], branch |-> "switched"]
         ELSE [ok |-> FALSE, ac |-> ac, branch |-> "no_route"]

\* the message argument of the sends
MessageText == <<"m1">>
\* encrypt_encode(message, box): the ciphertext, base64 encoded
encrypt_encode(message) == <<"enc">> \o message

\* the message prepare_privmsg goes on with after "if encrypt:"
outgoing(cmd) == IF encrypt(cmd) THEN encrypt_encode(MessageText) ELSE MessageText

\* the arguments of request_signed_message: nick, cmd, message,
\* msg_to_be_signed, hostid
SignRequest(nick, cmd, h) ==
    [nick |-> nick, cmd |-> cmd, message |-> outgoing(cmd),
     msg_to_be_signed |-> msg_to_be_signed(outgoing(cmd), h), hostid |-> h]

\* faulty variant: the hostid of the pinned channel, whatever channel was given
prepare_privmsg_body_pinned(nick, cmd, mc, box, ac) ==
    IF encrypt(cmd) /\ ~box THEN <<>>
    ELSE IF ac[nick] # NoChan
    THEN <<SignRequest(nick, cmd, hostid(ac[nick]))>>
    ELSE <<>>

\* faulty variant: a missing session key does not stop the message
prepare_privmsg_body_unkeyed(nick, cmd, mc, box, ac) ==
    IF mc = NoChan
    THEN IF ac[nick] # NoChan
         THEN <<SignRequest(nick, cmd, hostid(ac[nick]))>>
         ELSE <<>>
    ELSE <<SignRequest(nick, cmd, hostid(mc))>>

\* the body of prepare_privmsg: the signing requests handed to callLater
prepare_privmsg_body(nick, cmd, mc, box, ac) ==
    IF encrypt(cmd) /\ ~box THEN <<>>
    ELSE IF mc = NoChan
    THEN IF ac[nick] # NoChan
         THEN <<SignRequest(nick, cmd, hostid(ac[nick]))>>
         ELSE <<>>
    ELSE <<SignRequest(nick, cmd, hostid(mc))>>

\* prepare_privmsg under its decorator
prepare_privmsg(nick, cmd, mc, box) ==
    LET w == check_privmsg(nick, active_channels, nicks_seen, mc_status) IN
    /\ active_channels' = w.ac
    /\ last' = Obs("prepare_privmsg", mc, nick, w.branch, <<>>,
                   IF w.ok THEN prepare_privmsg_body(nick, cmd, mc, box, w.ac)
                   ELSE <<>>,
                   <<>>, NoPre)
    /\ UNCHANGED <<mc_status, nicks_seen, welcomeVars, pending_verify, taskVars>>

\* send_error and push_tx: decorated, and calling the decorated prepare_privmsg
\* with the plaintext command cmd
routed(op, nick, cmd) ==
    LET w  == check_privmsg(nick, active_channels, nicks_seen, mc_status)
        w2 == check_privmsg(nick, w.ac, nicks_seen, mc_status)
    IN /\ active_channels' = IF w.ok THEN w2.ac ELSE w.ac
       /\ last' = Obs(op, NoChan, nick, w.branch, <<>>,
                      IF w.ok /\ w2.ok
                      THEN prepare_privmsg_body(nick, cmd, NoChan, FALSE, w2.ac)
                      ELSE <<>>,
                      <<>>, NoPre)
       /\ UNCHANGED <<mc_status, nicks_seen, welcomeVars, pending_verify, taskVars>>

send_error(nick) == routed("send_error", nick, word("error"))

push_tx(nick) == routed("push_tx", nick, word("push"))

\* faulty variant: without an explicit channel the first available channel is used
privmsg_channel_first(nick, kind, id, ac, st) ==
    LET avail == available_channels(st) IN
    IF kind # "none"
    THEN IF id \in Range(avail) THEN id ELSE NoChan
    ELSE IF avail # <<>> THEN avail[1] ELSE NoChan

\* privmsg: the channel whose privmsg is called (NoChan: none).  kind says
\* what the caller passed as mc: nothing, a channel, or a hostid string
privmsg_channel(nick, kind, id, ac, st) ==
    LET avail == available_channels(st)
        matching_channels ==
            IF kind = "hostid" THEN SelectSeq(avail, LAMBDA x : id = hostid(x))
            ELSE <<>>
    IN IF kind # "none"
       THEN IF kind = "chan" /\ id \in Range(avail) THEN id
            ELSE IF Len(matching_channels) # 1 THEN NoChan
            ELSE matching_channels[1]
       ELSE ac[nick]

privmsg(nick, kind, id) ==
    LET mc == privmsg_channel(nick, kind, id, active_channels, mc_status) IN
    /\ (kind = "none") = (id = NoChan)
    /\ last' = Obs("privmsg", id, nick, kind,
                   IF mc # NoChan THEN <<mc>> ELSE <<>>, <<>>, <<>>,
                   \* observation: the state before a disconnect just handled
                   IF last.op = "on_disconnect_trigger" THEN last.pre ELSE NoPre)
    /\ UNCHANGED <<mc_status, routeVars, welcomeVars, pending_verify, taskVars>>

\* MessageChannel.fill_orders for the nicks of the filtered dict, in dict
\* order: one privmsg per counterparty on the channel mc
RECURSIVE fill_sends(_, _, _)
fill_sends(nick_order_dict, chans, ac) ==
    IF chans = <<>> THEN <<>>
    ELSE LET mc == Head(chans)
             filtered_nick_order_dict == SelectSeq(nick_order_dict, LAMBDA k : mc = ac[k])
         IN [i \in 1..Len(filtered_nick_order_dict) |->
               [mc |-> mc, nick |-> filtered_nick_order_dict[i]]]
            \o fill_sends(nick_order_dict, Tail(chans), ac)

\* fill_orders; nick_order_dict is the sequence of the dict's keys.  The
\* comprehension reads active_channels[k] for every key k, for each available
\* channel: a key with no entry raises KeyError before anything is sent
fill_orders(nick_order_dict) ==
    LET avail == available_channels(mc_status)
        KeyError == avail # <<>> /\ \E i \in 1..Len(nick_order_dict) :
                                     active_channels[nick_order_dict[i]] = NoChan
    IN /\ last' = IF KeyError
                  THEN [Quiet("fill_orders", NoChan, NoChan, "KeyError")
                          EXCEPT !.raised = TRUE]
                  ELSE Obs("fill_orders", NoChan, NoChan, "", 
                           fill_sends(nick_order_dict, avail, active_channels),
                           <<>>, <<>>, NoPre)
       /\ UNCHANGED <<mc_status, routeVars, welcomeVars, pending_verify, taskVars>>

\* faulty variant: only the first counterparty of the list is looked up
first_not_active(nick_list, ac) == ac[nick_list[1]] = NoChan

\* the first loop of send_tx returns: some nick of the list is not in
\* active_channels
some_not_active(nick_list, ac) ==
    \E i \in 1..Len(nick_list) : ac[nick_list[i]] = NoChan

\* the keys of tx_nick_sets, in insertion order: the pinned channels of the
\* nicks of the list, each at its first occurrence
RECURSIVE tx_nick_sets_keys(_, _)
tx_nick_sets_keys(nick_list, ac) ==
    IF nick_list = <<>> THEN <<>>
    ELSE LET rest == tx_nick_sets_keys(SubSeq(nick_list, 1, Len(nick_list) - 1), ac)
             mc == ac[nick_list[Len(nick_list)]]
         IN IF mc \in Range(rest) THEN rest ELSE Append(rest, mc)

\* prepare_send_tx: prepare_privmsg(nick, "tx", txb64, mc=mc) for each nick of
\* the list; boxes: the nicks the session-key subsystem has a key for
RECURSIVE prepare_send_tx(_, _, _, _)
prepare_send_tx(mc, nick_list, boxes, ac) ==
    IF nick_list = <<>> THEN <<>>
    ELSE LET nick == Head(nick_list)
             w == check_privmsg(nick, ac, nicks_seen, mc_status)
         IN (IF w.ok THEN prepare_privmsg_body(nick, word("tx"), mc, nick \in boxes, w.ac)
             ELSE <<>>)
            \o prepare_send_tx(mc, Tail(nick_list), boxes, ac)

\* the second loop of send_tx: "for mc, nl in tx_nick_sets.items()"
RECURSIVE send_tx_loop(_, _, _, _)
send_tx_loop(chans, nick_list, boxes, ac) ==
    IF chans = <<>> THEN <<>>
    ELSE prepare_send_tx(Head(chans),
                         SelectSeq(nick_list, LAMBDA k : ac[k] = Head(chans)),
                         boxes, ac)
         \o send_tx_loop(Tail(chans), nick_list, boxes, ac)

\* send_tx.  Nothing that it awaits suspends (prepare_privmsg awaits nothing
\* and hands its request to callLater), so the call runs to its end in one step
send_tx(nick_list, boxes) ==
    /\ last' = IF some_not_active(nick_list, active_channels)
               THEN Quiet("send_tx", NoChan, NoChan, "not_active")
               ELSE Obs("send_tx", NoChan, NoChan, "", <<>>,
                        send_tx_loop(tx_nick_sets_keys(nick_list, active_channels),
                                     nick_list, boxes, active_channels),
                        <<>>, NoPre)
    /\ UNCHANGED <<mc_status, routeVars, welcomeVars, pending_verify, taskVars>>

---------------------------------------------------------------------------
(* MessageChannelCollection: calls on every channel.  Each call on a channel *)
(* is awaited: the coroutine is suspended in it and other handlers run       *)
(* before it goes on to the next channel of the list it computed.            *)

BroadcastOps == {"pubmsg", "cancel_orders", "request_orderbook"}

\* pubmsg, cancel_orders, request_orderbook up to the first awaited send: the
\* list available_channels() is computed once, when the for loop starts
broadcast(op) ==
    LET chans == available_channels(mc_status) IN
    /\ task = Idle
    /\ IF chans = <<>>
       THEN /\ task' = Idle
            /\ last' = Quiet(op, NoChan, NoChan, "done")
       ELSE /\ task' = [Idle EXCEPT !.op = op, !.phase = "available",
                                    !.todo = Tail(chans), !.sent = <<Head(chans)>>,
                                    !.st = mc_status]
            /\ last' = Obs(op, Head(chans), NoChan, "send", <<Head(chans)>>,
                           <<>>, <<>>, NoPre)
    /\ UNCHANGED <<mc_status, routeVars, welcomeVars, pending_verify, give_up>>

\* the awaited send returns: the loop sends on the next channel of its list,
\* or ends.  On return, sent holds every send of the call and pre.st the
\* statuses at the call (observation)
broadcast_resume ==
    /\ task.op \in BroadcastOps
    /\ IF task.todo = <<>>
       THEN /\ task' = Idle
            /\ last' = Obs(task.op, NoChan, NoChan, "done", task.sent, <<>>, <<>>,
                           [NoPre EXCEPT !.st = task.st])
       ELSE /\ task' = [task EXCEPT !.todo = Tail(@),
                                    !.sent = Append(@, Head(task.todo))]
            /\ last' = Obs(task.op, Head(task.todo), NoChan, "send",
                           <<Head(task.todo)>>, <<>>, <<>>, NoPre)
    /\ UNCHANGED <<mc_status, routeVars, welcomeVars, pending_verify, give_up>>

\* faulty variant: the channels that are not available are always stopped
shutdown_first_all(shutdown_unavailable, st) == unavailable_channels(st)

\* the list of the first loop of shutdown: "if shutdown_unavailable: for mc in
\* self.unavailable_channels()"
shutdown_first(shutdown_unavailable, st) ==
    IF shutdown_unavailable THEN unavailable_channels(st) ELSE <<>>

\* the next mc.shutdown() of shutdown, todo being what is left of the list of
\* the running loop: the second loop computes available_channels() when the
\* first has ended.  mc = NoChan: both loops have ended
shutdown_next(phase, todo, st) ==
    IF todo # <<>>
    THEN [mc |-> Head(todo), phase |-> phase, todo |-> Tail(todo)]
    ELSE IF phase = "unavailable" /\ available_channels(st) # <<>>
    THEN [mc |-> Head(available_channels(st)), phase |-> "available",
          todo |-> Tail(available_channels(st))]
    ELSE [mc |-> NoChan, phase |-> "done", todo |-> <<>>]

\* shutdown goes on to n: it awaits the next mc.shutdown(), or sets give_up
\* and returns
shutdown_step(n, t) ==
    IF n.mc = NoChan
    THEN /\ give_up' = TRUE
         /\ task' = Idle
         /\ last' = Obs("shutdown", NoChan, NoChan,
                        IF t.shutdown_unavailable THEN "done_unavailable" ELSE "done",
                        t.sent, <<>>, <<>>, [NoPre EXCEPT !.st = t.st])
    ELSE /\ give_up' = give_up
         /\ task' = [t EXCEPT !.phase = n.phase, !.todo = n.todo,
                              !.sent = Append(@, n.mc)]
         /\ last' = Obs("shutdown", n.mc, NoChan, "send", <<n.mc>>, <<>>, <<>>, NoPre)

\* shutdown up to its first awaited mc.shutdown()
shutdown(shutdown_unavailable) ==
    /\ task = Idle
    /\ shutdown_step(shutdown_next("unavailable",
                                   shutdown_first(shutdown_unavailable, mc_status),
                                   mc_status),
                     [Idle EXCEPT !.op = "shutdown", !.st = mc_status,
                                  !.shutdown_unavailable = shutdown_unavailable])
    /\ UNCHANGED <<mc_status, routeVars, welcomeVars, pending_verify>>

\* the awaited mc.shutdown() returns
shutdown_resume ==
    /\ task.op = "shutdown"
    /\ shutdown_step(shutdown_next(task.phase, task.todo, mc_status), task)
    /\ UNCHANGED <<mc_status, routeVars, welcomeVars, pending_verify>>

---------------------------------------------------------------------------
(* Spec: routing.  The channels come up and go down, counterparties are    *)
(* sighted, leave and are sent to; no business on_welcome is registered.   *)

\* the counterparty that is active in Spec, and the private messages it sends
RouteNicks == {"bob"}
RouteMessages == {PrivOffer}
SendCommands == {word("fill"), word("auth")}

Next ==
    \/ \E mc \in Channels : on_connect_trigger(mc)
    \/ \E mc \in Channels : on_disconnect_trigger(mc)
    \/ \E mc \in Channels : on_welcome_trigger(mc)
    \/ \E mc \in Channels, nick \in RouteNicks, m \in PubMessages : on_pubmsg(mc, nick, m)
    \/ \E mc \in Channels, nick \in RouteNicks, m \in RouteMessages : on_privmsg(mc, nick, m)
    \/ \E req \in pending_verify : verify_failed(req)
    \/ \E req \in pending_verify, box \in BOOLEAN : on_verified_privmsg(req, box)
    \/ \E mc \in Channels, nick \in RouteNicks : on_nick_leave_trigger(nick, mc)
    \/ \E nick \in RouteNicks, cmd \in SendCommands, mc \in Channels \cup {NoChan},
          box \in BOOLEAN : prepare_privmsg(nick, cmd, mc, box)
    \/ \E nick \in RouteNicks : send_error(nick)
    \/ \E nick \in RouteNicks : push_tx(nick)
    \/ \E nick \in RouteNicks, kind \in {"none", "chan", "hostid"},
          id \in Channels \cup {NoChan} : privmsg(nick, kind, id)

Spec == Init /\ [][Next]_vars

(* SpecWelcome: the readiness aggregation over the connectivity triggers.  *)

NextWelcome ==
    \/ \E mc \in Channels : on_connect_trigger(mc)
    \/ \E mc \in Channels : on_disconnect_trigger(mc)
    \/ \E mc \in Channels : on_welcome_trigger(mc)
    \/ on_welcome_trigger_resume
    \/ on_welcome_setup_finished
    \/ on_welcome_setup_finished_resume

SpecWelcome == InitWelcome /\ [][NextWelcome]_vars

\* SpecWelcome with a scheduler that eventually runs a pending timer
SpecWelcomeLive == SpecWelcome /\ WF_vars(on_welcome_setup_finished)

(* SpecMsg: the two-phase handling of inbound messages, well-formed and not. *)

NextMsg ==
    \/ \E mc \in Channels : on_connect_trigger(mc)
    \/ \E mc \in Channels : on_disconnect_trigger(mc)
    \/ \E mc \in Channels, nick \in RouteNicks, m \in PubMessages : on_pubmsg(mc, nick, m)
    \/ \E mc \in Channels, nick \in RouteNicks, m \in PrivMessages : on_privmsg(mc, nick, m)
    \/ \E req \in pending_verify : verify_failed(req)
    \/ \E req \in pending_verify, box \in BOOLEAN : on_verified_privmsg(req, box)

SpecMsg == Init /\ [][NextMsg]_vars

(* SpecReplay: private messages whose signatures are checked.              *)

NextReplay ==
    \/ \E mc \in Channels : on_connect_trigger(mc)
    \/ \E mc \in Channels : on_disconnect_trigger(mc)
    \/ \E mc \in Channels, nick \in RouteNicks, m \in SignedMessages : on_privmsg(mc, nick, m)
    \/ \E req \in pending_verify, box \in BOOLEAN : request_signature_verify(req, box)

SpecReplay == Init /\ [][NextReplay]_vars

(* SpecSend: the routed sends to a counterparty sighted by public messages. *)

NextSend ==
    \/ \E mc \in Channels : on_connect_trigger(mc)
    \/ \E mc \in Channels : on_disconnect_trigger(mc)
    \/ \E mc \in Channels, nick \in RouteNicks, m \in PubMessages : on_pubmsg(mc, nick, m)
    \/ \E mc \in Channels, nick \in RouteNicks : on_nick_leave_trigger(nick, mc)
    \/ \E nick \in RouteNicks, cmd \in SendCommands, mc \in Channels \cup {NoChan},
          box \in BOOLEAN : prepare_privmsg(nick, cmd, mc, box)
    \/ \E nick \in RouteNicks : send_error(nick)
    \/ \E nick \in RouteNicks : push_tx(nick)

SpecSend == Init /\ [][NextSend]_vars

(* SpecFill: two counterparties publish offers and are sent fill messages. *)

\* the key sequences of the nick_order_dict arguments
OrderDicts == {<<n>> : n \in Nicks}
              \cup {d \in Nicks \X Nicks : d[1] # d[2]}

NextFill ==
    \/ \E mc \in Channels : on_connect_trigger(mc)
    \/ \E mc \in Channels : on_disconnect_trigger(mc)
    \/ \E mc \in Channels, nick \in Nicks : on_pubmsg(mc, nick, PubOffer)
    \/ \E d \in OrderDicts : fill_orders(d)

SpecFill == Init /\ [][NextFill]_vars

(* SpecTx: two counterparties publish offers and are sent the transaction. *)

NextTx ==
    \/ \E mc \in Channels : on_connect_trigger(mc)
    \/ \E mc \in Channels : on_disconnect_trigger(mc)
    \/ \E mc \in Channels, nick \in Nicks : on_pubmsg(mc, nick, PubOffer)
    \/ \E nick_list \in OrderDicts, boxes \in SUBSET Nicks : send_tx(nick_list, boxes)

SpecTx == Init /\ [][NextTx]_vars

(* SpecPub: the dispatch of public messages of one or several sub-commands. *)

NextPub ==
    \/ \E mc \in Channels : on_connect_trigger(mc)
    \/ \E mc \in Channels : on_disconnect_trigger(mc)
    \/ \E mc \in Channels, nick \in RouteNicks, m \in PubDispatch : on_pubmsg(mc, nick, m)

SpecPub == Init /\ [][NextPub]_vars

(* SpecVerified: the dispatch of verified private messages of one or several *)
(* sub-commands, next to public messages that name a fidelity bond.          *)

NextVerified ==
    \/ \E mc \in Channels : on_connect_trigger(mc)
    \/ \E mc \in Channels, nick \in RouteNicks, m \in PubBondMessages : on_pubmsg(mc, nick, m)
    \/ \E mc \in Channels, nick \in RouteNicks, m \in VerifiedDispatch : on_privmsg(mc, nick, m)
    \/ \E req \in pending_verify : verify_failed(req)
    \/ \E req \in pending_verify, box \in BOOLEAN : on_verified_privmsg(req, box)

SpecVerified == Init /\ [][NextVerified]_vars

(* SpecDaemon: the daemon hands verified messages to the collection.       *)

NextDaemon ==
    \/ \E mc \in Channels : on_connect_trigger(mc)
    \/ \E mc \in Channels : on_disconnect_trigger(mc)
    \/ \E mc \in Channels, nick \in RouteNicks, m \in PubMessages : on_pubmsg(mc, nick, m)
    \/ \E nick \in RouteNicks, m \in {PrivOffer, PrivBond}, h \in Hostids, box \in BOOLEAN :
          daemon_on_verified_privmsg(nick, m, h, box)

SpecDaemon == Init /\ [][NextDaemon]_vars

(* SpecBroadcast: broadcasts and shutdown while the channels come and go.  *)

NextBroadcast ==
    \/ \E mc \in Channels : on_connect_trigger(mc)
    \/ \E mc \in Channels : on_disconnect_trigger(mc)
    \/ \E op \in BroadcastOps : broadcast(op)
    \/ broadcast_resume
    \/ \E shutdown_unavailable \in BOOLEAN : shutdown(shutdown_unavailable)
    \/ shutdown_resume

SpecBroadcast == Init /\ [][NextBroadcast]_vars

---------------------------------------------------------------------------
(* Claims *)

pinned(n) == active_channels[n] # NoChan
available(c) == mc_status[c] = 1
routed_ops == {"prepare_privmsg", "send_error", "push_tx"}

\* C1: in every reachable state no counterparty is pinned to a channel whose
\* mc_status is Unavailable (2).
C1_NoPinToUnavailable ==
    \A n \in Nicks : pinned(n) => mc_status[active_channels[n]] # 2

\* C2: the business on_welcome callback is invoked at most once, whatever the
\* interleaving of welcome triggers, connect/disconnect flaps and the grace timer.
C2_WelcomeAtMostOnce == welcome_calls <= 1

\* the first channel, in list order, that is available and has seen cp
first_available_seen(cp, st, ns) ==
    LET hits == {i \in 1..Len(mchannels) :
                   st[mchannels[i]] = 1 /\ cp \in ns[mchannels[i]]}
    IN IF hits = {} THEN NoChan
       ELSE mchannels[CHOOSE i \in hits : \A j \in hits : i <= j]

\* C3: a routed send (prepare_privmsg without explicit channel, send_error,
\* push_tx) proceeds on the existing pin only if the pinned channel is
\* available; otherwise the counterparty is re-pinned to the first available
\* channel, in list order, that has seen it, and the send proceeds there.
C3_RoutedSendOnAvailableChannel ==
    [][ (last'.op \in routed_ops /\ last'.mc = NoChan /\ last'.signed # <<>>) =>
        LET cp == last'.nick
            h  == last'.signed[1].hostid
            f  == first_available_seen(cp, mc_status, nicks_seen)
        IN IF pinned(cp) /\ available(active_channels[cp])
           THEN h = hostid(active_channels[cp]) /\ active_channels' = active_channels
           ELSE f # NoChan /\ active_channels'[cp] = f /\ h = hostid(f) ]_vars

\* C4: after on_disconnect_trigger(mc) every counterparty that was pinned to
\* mc is pinned to an available channel that has seen it if there is one, and
\* is unpinned otherwise; pins to other available channels are unchanged.
C4_DisconnectFailover ==
    [][ last'.op = "on_disconnect_trigger" =>
        \A p \in Nicks :
          LET mc == last'.mc
              cands == {c \in Channels : mc_status'[c] = 1 /\ p \in nicks_seen'[c]}
          IN /\ active_channels[p] = mc =>
                  IF cands # {} THEN active_channels'[p] \in cands
                  ELSE active_channels'[p] = NoChan
             /\ (pinned(p) /\ active_channels[p] # mc
                   /\ mc_status'[active_channels[p]] = 1)
                  => active_channels'[p] = active_channels[p] ]_vars

\* C4 witness: a disconnect moved a counterparty pinned to the lost channel
C4_Witness ==
    /\ last.op = "on_disconnect_trigger"
    /\ \E p \in Nicks : /\ last.pre.ac[p] = last.mc
                        /\ pinned(p) /\ active_channels[p] # last.mc
                        /\ available(active_channels[p])

\* the situation of C5 in the state after privmsg(X) that directly followed
\* on_disconnect_trigger(A): X was in the seen-sets of A and B, both available
failover_case(A, B, X) ==
    /\ last.op = "privmsg" /\ last.mc = NoChan /\ last.nick = X
    /\ A # B
    /\ last.pre.st[A] = 1 /\ mc_status[A] = 2
    /\ last.pre.st[B] = 1
    /\ X \in last.pre.ns[A] /\ X \in last.pre.ns[B]

seen_only_on(A, X) ==
    /\ last.op = "privmsg" /\ last.mc = NoChan /\ last.nick = X
    /\ available(A)
    /\ \A c \in Channels : X \in nicks_seen[c] <=> c = A

no_route(cp) ==
    /\ ~pinned(cp)
    /\ \A c \in Channels : available(c) => cp \notin nicks_seen[c]

send_ops == routed_ops \cup {"privmsg"}

\* C7: a routed send or a privmsg to a counterparty that is not pinned and is
\* in no available channel's seen-set issues no signing request and no send,
\* changes neither the pins nor the seen-sets, and raises nothing.
C7_NoRouteNoEffect ==
    [][ (last'.op \in send_ops /\ no_route(last'.nick)) =>
        /\ last'.signed = <<>> /\ last'.sent = <<>> /\ ~last'.raised
        /\ UNCHANGED routeVars ]_vars

\* C7 amended: ... a privmsg with no explicit channel ...
C7_NoRouteNoEffectUnlessExplicit ==
    [][ ( /\ last'.op \in send_ops /\ no_route(last'.nick)
          /\ last'.op = "privmsg" => last'.mc = NoChan ) =>
        /\ last'.signed = <<>> /\ last'.sent = <<>> /\ ~last'.raised
        /\ UNCHANGED routeVars ]_vars

\* C7 witness: a routed send found no route while a channel was available
C7_Witness ==
    /\ last.op \in routed_ops /\ last.branch = "no_route"
    /\ last.signed = <<>>
    /\ \E c \in Channels : available(c)
    /\ \E c \in Channels : last.nick \in nicks_seen[c]

\* C8: on_nick_leave_trigger(nick, mc) with nick pinned to mc: if another
\* available channel has seen nick, the pin moves to such a channel and
\* on_nick_leave is not called; otherwise the pin is removed and on_nick_leave
\* is called exactly once.
C8_NickLeavePinned ==
    [][ (last'.op = "on_nick_leave_trigger"
           /\ active_channels[last'.nick] = last'.mc) =>
        LET nick == last'.nick
            others == {c \in Channels \ {last'.mc} :
                         available(c) /\ nick \in nicks_seen[c]}
        IN IF others # {}
           THEN active_channels'[nick] \in others /\ last'.cbs = <<>>
           ELSE active_channels'[nick] = NoChan
                /\ last'.cbs = <<"on_nick_leave">> ]_vars

\* C8 witness: the pin moved silently
C8_Witness ==
    /\ last.op = "on_nick_leave_trigger" /\ last.branch = "repinned"
    /\ pinned(last.nick) /\ active_channels[last.nick] # last.mc
    /\ last.cbs = <<>>

\* C9: on_nick_leave_trigger(nick, mc) with nick pinned to another channel
\* only removes nick from mc's seen-set: pins, other seen-sets and mc_status
\* are unchanged and on_nick_leave is not called.
C9_NickLeaveElsewhere ==
    [][ (last'.op = "on_nick_leave_trigger"
           /\ pinned(last'.nick) /\ active_channels[last'.nick] # last'.mc) =>
        /\ active_channels' = active_channels
        /\ mc_status' = mc_status
        /\ nicks_seen' = [nicks_seen EXCEPT ![last'.mc] = @ \ {last'.nick}]
        /\ last'.cbs = <<>> ]_vars

\* C9 witness: the nick left a channel while pinned to, and seen on, another
C9_Witness ==
    /\ last.op = "on_nick_leave_trigger" /\ last.branch = "elsewhere"
    /\ pinned(last.nick) /\ active_channels[last.nick] # last.mc
    /\ last.nick \in nicks_seen[active_channels[last.nick]]

\* C10: a private message that fails the checks of on_privmsg, or whose
\* signature verification fails, changes no seen-set and no pin and invokes no
\* business callback; on_privmsg itself never records a sighting.
C10_UnverifiedNoEffect ==
    [][ last'.op \in {"on_privmsg", "verify_failed"} =>
        /\ UNCHANGED routeVars
        /\ last'.cbs = <<>> ]_vars

\* C10 witness: a malformed private message from a nick not yet seen on the
\* channel was dropped
C10_Witness ==
    /\ last.op = "on_privmsg" /\ last.branch = "badsig"
    /\ available(last.mc)
    /\ last.nick \notin nicks_seen[last.mc]
    /\ \E c \in Channels : nicks_seen[c] # {}

\* public messages all of whose sub-commands are well-formed offers
WellFormedOffers == {PubOffer, PubTwoOffers}

\* C11: a well-formed public offer claiming nick N, received on channel B, adds
\* N to B's seen-set and pins N to B with no signature check, whatever channel
\* N was pinned to before.
C11_PublicOfferPins ==
    [][ \A B \in Channels, N \in RouteNicks, m \in WellFormedOffers :
          on_pubmsg(B, N, m) =>
            /\ N \in nicks_seen'[B]
            /\ active_channels'[N] = B
            /\ pending_verify' = pending_verify
            /\ "on_order_seen" \in Range(last'.cbs) ]_vars

\* C11 witness: an offer arrived on B for a nick pinned to another, still
\* available channel A, and the pin is now B
C11_Witness ==
    /\ last.op = "on_pubmsg" /\ "on_order_seen" \in Range(last.cbs)
    /\ last.pre.ac[last.nick] \notin {NoChan, last.mc}
    /\ available(last.pre.ac[last.nick])
    /\ active_channels[last.nick] = last.mc

\* the hostid a message's signature was made for
signed_hostid(message) ==
    LET p == signed_payload[message[Len(message)]] IN p[Len(p)]

\* C12: a message whose signature was made for the hostid of one channel, when
\* it is received on a channel of another hostid, is never accepted: its
\* verification fails, nothing of phase 2 runs and no sighting is recorded.
C12_NoCrossChannelReplay ==
    [][ \A req \in pending_verify :
          (req \notin pending_verify' /\ signed_hostid(req.message) # req.hostid) =>
            /\ last'.op = "verify_failed"
            /\ last'.cbs = <<>>
            /\ UNCHANGED routeVars ]_vars

\* C12 witness: a message signed for A or B was rejected on C, after the same
\* nick had been accepted and pinned on another channel
C12_Witness ==
    /\ last.op = "verify_failed" /\ last.mc = "C" /\ available("C")
    /\ last.nick \notin nicks_seen["C"]
    /\ pinned(last.nick)

\* the ready event has fired: on_welcome was invoked, or welcomed was set
ready_fired == welcomed \/ welcome_calls > 0
\* this step fires the ready event
fires_ready == IF on_welcome THEN welcome_calls' = welcome_calls + 1 ELSE welcomed'
connectivity_ops == {"on_connect_trigger", "on_disconnect_trigger"}

\* C13: when a step leaves every channel in a non-initial status, whichever of
\* on_welcome_trigger, on_connect_trigger or on_disconnect_trigger it is, and
\* the ready event has not fired yet, the ready event fires in that step.
C13_ReadyAtFullReadiness ==
    [][ ( /\ \E c \in Channels : mc_status[c] = 0
          /\ \A c \in Channels : mc_status'[c] # 0
          /\ ~ready_fired )
        => fires_ready ]_vars

\* C13 amended: an on_welcome_trigger that leaves no channel NotStarted while
\* the ready event has not fired fires it in that call; on_connect_trigger and
\* on_disconnect_trigger never fire it.
C13_ReadyAtWelcomeTrigger ==
    [][ /\ ( /\ last'.op = "on_welcome_trigger"
              /\ \A c \in Channels : mc_status'[c] # 0
              /\ ~ready_fired )
            => fires_ready
        /\ last'.op \in connectivity_ops
            => (welcome_calls' = welcome_calls /\ welcomed' = welcomed) ]_vars

\* C13 witness: the welcome of the last channel fired the ready event while
\* the grace timer was pending
C13_Witness ==
    /\ last.op = "on_welcome_trigger" /\ last.branch = "fire"
    /\ on_welcome /\ welcome_calls = 1
    /\ on_welcome_announce_id = "cancelled"
    /\ \E c \in Channels : mc_status[c] = 2

\* C14: with an on_welcome callback registered, once a channel has delivered
\* on_welcome_trigger the ready event eventually fires, even if other channels
\* stay NotStarted for ever (the scheduler eventually runs a pending timer).
C14_EventuallyReady ==
    (on_welcome /\ last.op = "on_welcome_trigger") ~> (welcome_calls > 0)

\* C14 witness: the grace timer fired the ready event while a channel was
\* still NotStarted
C14_Witness ==
    /\ last.op = "on_welcome_setup_finished"
    /\ on_welcome /\ welcome_calls = 1
    /\ \E c \in Channels : mc_status[c] = 0

\* C15: the two readiness paths exclude each other.  A welcome trigger that
\* reaches full readiness while the grace timer is pending cancels it, and the
\* timer callback never fires the ready event after that; once the timer has
\* fired, no later welcome trigger fires the ready event.
C15_PathsExclusive ==
    [][ /\ ( /\ last'.op = "on_welcome_trigger" /\ last'.branch = "fire"
              /\ on_welcome_announce_id = "pending" )
            => on_welcome_announce_id' = "cancelled"
        /\ last'.op = "on_welcome_setup_finished" => ~ready_fired
        /\ ( /\ last'.op = "on_welcome_trigger"
              /\ on_welcome_announce_id \in {"running", "done"} )
            => (last'.cbs = <<>> /\ welcome_calls' = welcome_calls) ]_vars

\* C16: a seen-set is emptied only by its own channel's transition to
\* Unavailable: on_disconnect_trigger(mc) empties nicks_seen[mc] and leaves
\* every other seen-set unchanged, whatever the other channel's status, and no
\* other operation empties a seen-set (a nick-leave removes the one nick).
C16_SeenSetClearedByOwnDisconnect ==
    [][ \A c \in Channels :
          /\ last'.op = "on_disconnect_trigger" =>
                IF c = last'.mc THEN nicks_seen'[c] = {}
                ELSE nicks_seen'[c] = nicks_seen[c]
          /\ ( /\ last'.op # "on_disconnect_trigger"
                /\ ~ (nicks_seen[c] \subseteq nicks_seen'[c]) )
              => /\ last'.op = "on_nick_leave_trigger" /\ last'.mc = c
                 /\ nicks_seen'[c] = nicks_seen[c] \ {last'.nick} ]_vars

\* public messages in which the sub-command "orderbook" occurs twice
FloodMessages == {PubFlood, PubFloodCancel}

\* C17: a public message in which the sub-command "orderbook" occurs more than
\* once invokes no order-seen and no order-cancel callback and changes no pin,
\* whatever else it contains.
C17_OrderbookFloodIgnored ==
    [][ \A mc \in Channels, nick \in RouteNicks, m \in FloodMessages :
          on_pubmsg(mc, nick, m) =>
            /\ last'.cbs = <<>>
            /\ active_channels' = active_channels ]_vars

\* C17 witness: a flood message from a nick pinned to another channel was
\* dropped: the nick is seen on the receiving channel and its pin is unchanged
C17_Witness ==
    /\ last.op = "on_pubmsg" /\ last.branch = "flood"
    /\ last.cbs = <<>>
    /\ last.nick \in nicks_seen[last.mc]
    /\ pinned(last.nick) /\ active_channels[last.nick] # last.mc
    /\ last.pre.ac = active_channels

\* C18: fill_orders never raises; a counterparty of nick_order_dict with no
\* entry in active_channels is sent nothing, and every other counterparty is
\* sent the fill message on its pinned available channel.
C18_FillOrdersNeverRaises ==
    [][ \A d \in OrderDicts :
          fill_orders(d) =>
            /\ ~last'.raised
            /\ Range(last'.sent) =
                  {[mc |-> active_channels[k], nick |-> k] :
                     k \in {x \in Range(d) : pinned(x) /\ available(active_channels[x])}} ]_vars

\* C19: prepare_privmsg for a command that requires encryption, when there is
\* no session key for the counterparty, issues no signing request and no send
\* and raises nothing; for a plaintext command the key plays no part and,
\* a route being found, the signing request is issued.
C19_NoKeyNoRequest ==
    [][ last'.op = "prepare_privmsg" =>
        \A nick \in RouteNicks, mc \in Channels \cup {NoChan} :
          /\ prepare_privmsg(nick, word("auth"), mc, FALSE) =>
                (last'.signed = <<>> /\ last'.sent = <<>> /\ ~last'.raised)
          /\ \A box \in BOOLEAN :
                (prepare_privmsg(nick, word("fill"), mc, box) /\ last'.branch # "no_route")
                => /\ Len(last'.signed) = 1
                   /\ last'.signed[1].cmd = word("fill")
                   /\ ~last'.raised ]_vars

\* C19 witness: a route to the counterparty was found and no signing request
\* was issued: the command needed a session key and there was none
C19_Witness ==
    /\ last.op = "prepare_privmsg" /\ last.branch \in {"pinned", "switched"}
    /\ pinned(last.nick) /\ available(active_channels[last.nick])
    /\ last.signed = <<>> /\ ~last.raised

\* the callbacks of the well-formed sub-commands of a list of sub-commands:
\* an offer with all its fields, a cancel with an integer order id
RECURSIVE well_formed_callbacks(_)
well_formed_callbacks(cmds) ==
    IF cmds = <<>> THEN <<>>
    ELSE LET c == split(Head(cmds), SP) IN
         (IF c[1] \in offername_list /\ Len(c) >= 6 THEN <<"on_order_seen">>
          ELSE IF c[1] = word("cancel") /\ Len(c) >= 2 /\ is_int(c[2])
          THEN <<"on_order_cancel">>
          ELSE <<>>)
         \o well_formed_callbacks(Tail(cmds))

\* public messages whose first sub-command fails to parse and whose second is
\* well-formed
MalformedFirst == {PubShortOffer, PubBadCancel, PubNoOidCancel}

\* C20: in on_pubmsg a sub-command that fails to parse (an offer with missing
\* fields, a cancel with a missing or non-integer order id) is skipped, and
\* every later well-formed sub-command still produces its callback.
C20_ParseFailureSkipped ==
    [][ \A mc \in Channels, nick \in RouteNicks, m \in MalformedFirst :
          on_pubmsg(mc, nick, m) =>
            last'.cbs = well_formed_callbacks(split(drop_first(m), COMMAND_PREFIX)) ]_vars

\* the sub-commands of a verified private message, its trailer stripped
subcommands(message) ==
    split(join(drop_last2(split(drop_first(message), SP)), SP), COMMAND_PREFIX)

\* the callbacks of a list of sub-commands when an encrypted sub-command that
\* has no session key, or does not decrypt, is dropped alone
RECURSIVE dropped_alone(_, _)
dropped_alone(cmds, box) ==
    IF cmds = <<>> THEN <<>>
    ELSE LET c == split(Head(cmds), SP)
             enc == c[1] \in encrypted_commands
         IN (IF enc /\ (~box \/ ~decrypts(concat(Tail(c)))) THEN <<>>
             ELSE IF enc THEN dispatch(<<c[1]>> \o split(decode_decrypt(concat(Tail(c))), SP))
             ELSE dispatch(c))
            \o dropped_alone(Tail(cmds), box)

\* C21: in the channel's on_verified_privmsg an encrypted sub-command that has
\* no session key or fails to decrypt is dropped alone: every later
\* sub-command of the message is still decrypted as needed and dispatched.
C21_OnlyFailedSubcommandDropped ==
    [][ \A req \in pending_verify, box \in BOOLEAN :
          on_verified_privmsg(req, box) =>
            last'.cbs = dropped_alone(subcommands(req.message), box) ]_vars

\* the number of chunks the handler of a command reads, the command word included
fields_read(cmd) ==
    IF cmd \in offername_list \/ cmd = word("ioauth") THEN 6
    ELSE IF cmd \in fidelity_bond_cmd_list \cup {word("pubkey"), word("sig")} THEN 2
    ELSE 1

handler_of(cmd) ==
    IF cmd \in offername_list THEN <<"on_order_seen">>
    ELSE IF cmd \in fidelity_bond_cmd_list THEN <<"on_fidelity_bond_seen">>
    ELSE IF cmd \in {word("error"), word("pubkey"), word("ioauth"), word("sig")}
    THEN <<"on_" \o cmd[1]>>
    ELSE <<>>

\* the chunks of a sub-command, decrypted with the session key where needed
plain_chunks(command) ==
    LET c == split(command, SP) IN
    IF c[1] \in encrypted_commands
    THEN <<c[1]>> \o split(decode_decrypt(concat(Tail(c))), SP)
    ELSE c

\* no positional argument is missing
complete(c) == Len(c) >= fields_read(c[1])
\* no positional argument is missing and the fields of an offer are numbers
well_formed(c) ==
    /\ complete(c)
    /\ c[1] \in offername_list => \A i \in 2..6 : is_int(c[i])

\* the handlers, in order, of the sub-commands that are complete, or, when
\* strict, well-formed
RECURSIVE handlers_where(_, _)
handlers_where(cmds, strict) ==
    IF cmds = <<>> THEN <<>>
    ELSE LET c == plain_chunks(Head(cmds)) IN
         (IF (IF strict THEN well_formed(c) ELSE complete(c)) THEN handler_of(c[1])
          ELSE <<>>)
         \o handlers_where(Tail(cmds), strict)

\* verified messages with a sub-command that lacks positional arguments
MissingArguments == {PrivShortOfferPubkey, PrivNoArgs, PrivShortIoauth}

\* C22: in the channel's on_verified_privmsg a sub-command whose positional
\* arguments are missing or malformed invokes no handler for itself, raises
\* nothing, and the later sub-commands of the message are still dispatched.
C22_MalformedSubcommandSkipped ==
    [][ \A req \in pending_verify :
          (req.message \in MissingArguments \cup {PrivOddOffer}
             /\ on_verified_privmsg(req, TRUE)) =>
            /\ last'.cbs = handlers_where(subcommands(req.message), TRUE)
            /\ ~last'.raised ]_vars

\* C22 amended: ... a sub-command with fewer positional arguments than its
\* handler reads ...
C22_IncompleteSubcommandSkipped ==
    [][ \A req \in pending_verify :
          (req.message \in MissingArguments \cup {PrivOddOffer}
             /\ on_verified_privmsg(req, TRUE)) =>
            /\ last'.cbs = handlers_where(subcommands(req.message), FALSE)
            /\ ~last'.raised ]_vars

\* C22 witness: of "!error e1!pubkey!tbond!tbond p1" the first and the last
\* sub-command were dispatched
C22_Witness ==
    /\ last.op = "on_verified_privmsg" /\ ~last.raised
    /\ last.cbs = <<"on_error", "on_fidelity_bond_seen">>

\* C23: a broadcast (pubmsg, cancel_orders, request_orderbook) sends once on
\* each available channel in channel-list order, and never issues a send on a
\* channel that is not available at the moment of that send, also when a
\* disconnect trigger interleaves between two sends of the same broadcast.
C23_BroadcastOnlyOnAvailable ==
    /\ (last.op \in BroadcastOps /\ last.branch = "send") => available(last.mc)
    /\ (last.op \in BroadcastOps /\ last.branch = "done")
          => last.sent = available_channels(last.pre.st)

\* shutdown() with default arguments has returned
shutdown_returned == last.op = "shutdown" /\ last.branch = "done"

\* C25: after shutdown() called with default arguments returns, a stop request
\* has been issued to every configured channel, whatever its status, and the
\* give_up flag is set.
C25_ShutdownStopsEveryChannel ==
    shutdown_returned => (Range(last.sent) = Channels /\ give_up)

\* C25 amended: ... a stop request has been issued, once, to every channel
\* that was available when shutdown was called, and to no other channel ...
C25_ShutdownStopsAvailableChannels ==
    shutdown_returned =>
        /\ last.sent = available_channels(last.pre.st)
        /\ give_up

\* C25 witness: shutdown returned having stopped two channels, one of which
\* went down meanwhile, and having left out a channel that was Unavailable
C25_Witness ==
    /\ shutdown_returned /\ give_up
    /\ Len(last.sent) = 2
    /\ \E c \in Range(last.sent) : mc_status[c] = 2
    /\ \E c \in Channels \ Range(last.sent) : last.pre.st[c] = 2 /\ mc_status[c] = 2

\* C24: every write to the pin map, to a seen-set and to the welcome
\* aggregation state is performed while mc_lock is held by the writing task:
\* while a task holds mc_lock and keeps it, no step of another task writes
\* active_channels, nicks_seen, mc_status or welcomed.
C24_WritesUnderLock ==
    [][ (mc_lock = "held" /\ mc_lock' = "held") =>
        UNCHANGED <<active_channels, nicks_seen, mc_status, welcomed>> ]_vars

\* C26: MessageChannelCollection.on_verified_privmsg(nick, message, hostid)
\* never raises: when hostid matches no configured channel the call returns
\* normally with active_channels and the seen-sets unchanged; when it matches
\* one, the message is passed to that channel's on_verified_privmsg.
C26_VerifiedNeverRaises ==
    [][ \A nick \in RouteNicks, m \in {PrivOffer, PrivBond}, h \in Hostids, box \in BOOLEAN :
          daemon_on_verified_privmsg(nick, m, h, box) =>
            /\ ~last'.raised
            /\ IF \E c \in Channels : hostid(c) = h
               THEN hostid(last'.mc) = h /\ last'.cbs = verified_table[m, box]
               ELSE UNCHANGED routeVars /\ last'.cbs = <<>> ]_vars

\* C27: the fidelity-bond-seen callback is invoked only while a private
\* message whose signature verification has succeeded is processed: no public
\* message, even one with a fidelity-bond sub-command, and no unverified
\* private message invokes it.
C27_BondOnlyFromVerified ==
    "on_fidelity_bond_seen" \in Range(last.cbs) => last.op = "on_verified_privmsg"

\* C27 witness: a verified private message announced a fidelity bond
C27_Witness ==
    /\ last.op = "on_verified_privmsg"
    /\ last.cbs = <<"on_fidelity_bond_seen">>
    /\ last.nick \in nicks_seen[last.mc]

\* C28: every signing request issued by prepare_privmsg carries the hostid of
\* the channel chosen for the send, the explicitly given channel when one is
\* given and otherwise the channel the counterparty is pinned to at that
\* moment, and its signing payload is the (possibly encrypted) message
\* followed by exactly that hostid.
C28_RequestCarriesChosenHostid ==
    (last.op \in routed_ops /\ last.signed # <<>>) =>
        LET chosen == IF last.mc # NoChan THEN last.mc ELSE active_channels[last.nick]
            request == last.signed[1]
        IN /\ Len(last.signed) = 1
           /\ chosen # NoChan
           /\ request.hostid = hostid(chosen)
           /\ request.message \in {MessageText, encrypt_encode(MessageText)}
           /\ request.msg_to_be_signed = request.message \o <<hostid(chosen)>>

\* C28 witness: an encrypted message for a channel given explicitly, to a
\* counterparty pinned to another channel
C28_Witness ==
    /\ last.op = "prepare_privmsg" /\ last.signed # <<>>
    /\ last.mc # NoChan /\ pinned(last.nick) /\ active_channels[last.nick] # last.mc
    /\ last.signed[1].hostid = hostid(last.mc)
    /\ last.signed[1].message = encrypt_encode(MessageText)

\* C29: on_disconnect_trigger invokes the business on_disconnect exactly when,
\* after the channel is marked Unavailable, no configured channel has status
\* Connected; while a channel remains Connected the disconnect of another
\* does not invoke it.
C29_DisconnectWhenNoneConnected ==
    last.op = "on_disconnect_trigger" =>
        /\ mc_status[last.mc] = 2
        /\ last.cbs = IF \E c \in Channels : mc_status[c] = 1 THEN <<>>
                      ELSE <<"on_disconnect">>

\* C29 witness: the last connected channel went down while another channel
\* had not started yet, and on_disconnect was invoked
C29_Witness ==
    /\ last.op = "on_disconnect_trigger" /\ last.cbs = <<"on_disconnect">>
    /\ last.pre.st[last.mc] = 1
    /\ \E c \in Channels : mc_status[c] = 0
    /\ \E c \in Channels \ {last.mc} : mc_status[c] = 2

\* the counterparty of the step is, after it, in no available channel's seen-set
departed_all(nick) ==
    \A c \in Channels : mc_status'[c] = 1 => nick \notin nicks_seen'[c]

C31_PinnedIsSeen ==
    \A n \in Nicks : pinned(n) => n \in nicks_seen[active_channels[n]]

\* C31 witness: a nick left the channel it was pinned to and the pin moved to
\* another channel that has seen it
C31_Witness ==
    /\ last.op = "on_nick_leave_trigger"
    /\ last.nick \notin nicks_seen[last.mc]
    /\ pinned(last.nick) /\ active_channels[last.nick] # last.mc
    /\ last.cbs = <<>> /\ last.branch # "elsewhere"
    /\ last.nick \in nicks_seen[active_channels[last.nick]]

\* the signing requests that carry, for each counterparty of the set, the
\* hostid of its pinned channel
requests_for(nicks) ==
    {[nick |-> k, hostid |-> hostid(active_channels[k])] : k \in nicks}

\* the counterparty and the hostid of each request issued by the step
issued == {[nick |-> last'.signed[i].nick, hostid |-> last'.signed[i].hostid] :
             i \in 1..Len(last'.signed)}

\* C32: send_tx is all-or-nothing over its nick list: if any counterparty of
\* nick_list has no entry in active_channels no signing request is issued for
\* any counterparty of the list; otherwise one signing request per
\* counterparty is issued, each carrying the hostid of its pinned channel.
C32_SendTxAllOrNothing ==
    [][ \A nick_list \in OrderDicts, boxes \in SUBSET Nicks :
          send_tx(nick_list, boxes) =>
            IF \E k \in Range(nick_list) : ~pinned(k)
            THEN last'.signed = <<>>
            ELSE /\ Len(last'.signed) = Len(nick_list)
                 /\ issued = requests_for(Range(nick_list)) ]_vars

\* C32 amended: ... otherwise one signing request is issued per counterparty
\* for which there is a session key, each carrying the hostid of its pinned
\* channel; a counterparty without a session key gets none.
C32_SendTxAllOrNothingKeyed ==
    [][ \A nick_list \in OrderDicts, boxes \in SUBSET Nicks :
          send_tx(nick_list, boxes) =>
            IF \E k \in Range(nick_list) : ~pinned(k)
            THEN last'.signed = <<>>
            ELSE /\ Len(last'.signed) = Cardinality(Range(nick_list) \cap boxes)
                 /\ issued = requests_for(Range(nick_list) \cap boxes)
                 /\ \A i \in 1..Len(last'.signed) : last'.signed[i].cmd = word("tx") ]_vars

\* C32 witness: the transaction went to two counterparties pinned to two
\* different channels
C32_Witness ==
    /\ last.op = "send_tx" /\ Len(last.signed) = 2
    /\ last.signed[1].nick # last.signed[2].nick
    /\ last.signed[1].hostid # last.signed[2].hostid
    /\ \A i \in 1..2 : last.signed[i].hostid = hostid(active_channels[last.signed[i].nick])
====
